---- MODULE Spec2Model ----
(***************************************************************************)
(* Model of scripts/ci/check_perf_regressions.py, the performance gate.    *)
(*                                                                         *)
(* One run of the script is one behaviour.  The command line, the two      *)
(* files and the thresholds are fixed by Init.  The report's entries are   *)
(* external data too: their number is fixed by Init, and the content of an *)
(* entry is drawn when the loop reaches it (its key set when the entry is  *)
(* entered, each metric value when the inner loop reaches the item).  The  *)
(* history variables frameSeen and recomposeSeen record the metric values  *)
(* the scan has met; the program itself keeps only the two accumulators.   *)
(*                                                                         *)
(* An optional value (Python None or a number, a missing field or a        *)
(* number) is a sequence of length 0 or 1.                                 *)
(***************************************************************************)
EXTENDS Integers, Sequences, FiniteSets

VARIABLES
    argc,           \* len(sys.argv) - 1
    benchFile,      \* the file sys.argv[1] names: "missing", "malformed", "ok"
    thrFile,        \* the file sys.argv[2] names: "missing", "malformed", "ok"
    benchmarksLen,  \* <<>>: the report has no "benchmarks" field; <<n>>: n entries
    thresholdsData, \* content of the thresholds file: the two optional fields
    pc,             \* position of the script
    io,             \* file-system operations performed so far, in order
    report,         \* is `report` bound (line 17 completed)
    thresholds,     \* is `thresholds` bound (line 18 completed)
    remaining,      \* entries of `benchmarks` the outer loop has not reached
    pending,        \* keys of the current entry's metrics the inner loop has not reached
    frame_p95,      \* optional number
    recompose_p95,  \* optional number
    out,            \* lines printed to standard output
    exitCode,       \* optional process exit status
    fatal,          \* name of the uncaught exception, "" if none
    frameSeen,      \* history: values found under "frameDurationCpuMs"
    recomposeSeen   \* history: values found under keys containing "compose:recompose"

vars == <<argc, benchFile, thrFile, benchmarksLen, thresholdsData, pc, io, report,
          thresholds, remaining, pending, frame_p95, recompose_p95, out, exitCode,
          fatal, frameSeen, recomposeSeen>>

inputs == <<argc, benchFile, thrFile, benchmarksLen, thresholdsData>>

----------------------------------------------------------------------------
(* Bounds *)

MaxArgc == 3
MaxEntries == 2
MaxMetrics == 2
MaxP95 == 1
MaxThreshold == 1

----------------------------------------------------------------------------
(* Data *)

None == <<>>
Some(v) == <<v>>
IsNone(x) == x = <<>>
Val(x) == x[1]

\* Metric names, split at ":".
FrameKey == <<"frameDurationCpuMs">>
Needle == <<"compose", "recompose">>
Keys == { FrameKey,
          <<"compose", "recompose">>,
          <<"ui", "compose", "recompose", "count">>,
          <<"compose", "layout">> }

\* A metric value of the report: a JSON object whose "P95" field is a number,
\* is absent, or is text float() rejects; or a JSON value that is no object.
P95Values == (-1)..MaxP95
MetricValues ==
    { [isDict |-> TRUE, field |-> "number", num |-> v] : v \in P95Values }
    \cup { [isDict |-> TRUE, field |-> "absent", num |-> 0],
           [isDict |-> TRUE, field |-> "text", num |-> 0],
           [isDict |-> FALSE, field |-> "absent", num |-> 0] }

ThresholdValues == {None} \cup { Some(t) : t \in 0..MaxThreshold }

\* `needle in key` on the split names: needle is a contiguous part of key.
Contains(key, needle) ==
    \E s \in 0..(Len(key) - Len(needle)) :
        \A k \in 1..Len(needle) : key[s + k] = needle[k]

\* "compose:recompose" in key and isinstance(value, dict)   (line 35)
Matches(key, value) == Contains(key, Needle) /\ value.isDict

Max2(a, b) == IF b > a THEN b ELSE a

\* value.get("P95", 0): the field, or the default 0.
GetP95(value) == IF value.field = "number" THEN value.num ELSE 0

\* float(...) raises on text that is no number.
FloatRaises(value) == value.field = "text"

\* Accumulate as a plain maximum: None handled by `is None` instead of `or 0`.
AccumulatePlainMax(acc, value) ==
    Some(IF IsNone(acc) THEN GetP95(value) ELSE Max2(Val(acc), GetP95(value)))

\* max(acc or 0, float(value.get("P95", 0))): `acc or 0` is 0 for None and for 0.
Accumulate(acc, value) ==
    Some(Max2(IF IsNone(acc) \/ Val(acc) = 0 THEN 0 ELSE Val(acc), GetP95(value)))

\* Exceeds with ">=" written for ">".
ExceedsOrEquals(value, threshold) == value >= threshold

\* frame_p95 > thresholds[...], recompose_p95 > thresholds[...]   (lines 45, 49)
Exceeds(value, threshold) == value > threshold

Line(msg, val) == [msg |-> msg, val |-> val]

----------------------------------------------------------------------------
(* Initial state: the run's inputs *)

Init ==
    /\ argc \in 0..MaxArgc
    /\ benchFile \in {"missing", "malformed", "ok"}
    /\ thrFile \in {"missing", "malformed", "ok"}
    /\ benchmarksLen \in {None} \cup { Some(n) : n \in 0..MaxEntries }
    /\ thresholdsData \in [frameDurationCpuMsP95 : ThresholdValues,
                           recompositionCountP95 : ThresholdValues]
    /\ pc = "args"
    /\ io = <<>>
    /\ report = FALSE
    /\ thresholds = FALSE
    /\ remaining = 0
    /\ pending = {}
    /\ frame_p95 = None
    /\ recompose_p95 = None
    /\ out = <<>>
    /\ exitCode = None
    /\ fatal = ""
    /\ frameSeen = {}
    /\ recomposeSeen = {}

----------------------------------------------------------------------------
(* Ways a run ends *)

\* sys.exit(code) after print(msg)
Exit(msg, code) ==
    /\ out' = Append(out, Line(msg, None))
    /\ exitCode' = Some(code)
    /\ fatal' = ""
    /\ pc' = "done"

\* An uncaught exception: the interpreter writes the traceback to standard
\* error and the process ends with status 1.
Raise(exc) ==
    /\ out' = out
    /\ exitCode' = Some(1)
    /\ fatal' = exc
    /\ pc' = "done"

Goto(label) ==
    /\ pc' = label
    /\ UNCHANGED <<out, exitCode, fatal>>

----------------------------------------------------------------------------
(* The script, top to bottom *)

\* CheckArgs with "< 3" written for "!= 3": extra arguments pass.
CheckArgsTooFew ==
    /\ pc = "args"
    /\ IF argc < 2 THEN Exit("usage", 2) ELSE Goto("exists")
    /\ UNCHANGED <<inputs, io, report, thresholds, remaining, pending, frame_p95,
                   recompose_p95, frameSeen, recomposeSeen>>

\* lines 6-11
CheckArgs ==
    /\ pc = "args"
    /\ IF argc # 2 THEN Exit("usage", 2) ELSE Goto("exists")
    /\ UNCHANGED <<inputs, io, report, thresholds, remaining, pending, frame_p95,
                   recompose_p95, frameSeen, recomposeSeen>>

\* lines 13-15
CheckExists ==
    /\ pc = "exists"
    /\ io' = Append(io, "exists:benchmark")
    /\ IF benchFile = "missing" THEN Exit("not_found:benchmark", 2) ELSE Goto("load_report")
    /\ UNCHANGED <<inputs, report, thresholds, remaining, pending, frame_p95,
                   recompose_p95, frameSeen, recomposeSeen>>

\* line 17
LoadReport ==
    /\ pc = "load_report"
    /\ io' = Append(io, "read:benchmark")
    /\ IF benchFile = "malformed"
       THEN Raise("JSONDecodeError") /\ report' = report
       ELSE Goto("load_thresholds") /\ report' = TRUE
    /\ UNCHANGED <<inputs, thresholds, remaining, pending, frame_p95,
                   recompose_p95, frameSeen, recomposeSeen>>

\* line 18
LoadThresholds ==
    /\ pc = "load_thresholds"
    /\ io' = Append(io, "read:thresholds")
    /\ CASE thrFile = "missing" -> Raise("FileNotFoundError") /\ thresholds' = thresholds
         [] thrFile = "malformed" -> Raise("JSONDecodeError") /\ thresholds' = thresholds
         [] OTHER -> Goto("benchmarks") /\ thresholds' = TRUE
    /\ UNCHANGED <<inputs, report, remaining, pending, frame_p95,
                   recompose_p95, frameSeen, recomposeSeen>>

\* Benchmarks with report["benchmarks"] written for report.get("benchmarks", []).
BenchmarksSubscript ==
    /\ pc = "benchmarks"
    /\ IF IsNone(benchmarksLen)
       THEN Raise("KeyError") /\ remaining' = remaining
       ELSE IF Val(benchmarksLen) = 0
       THEN Exit("no_entries", 2) /\ remaining' = remaining
       ELSE Goto("for_benchmark") /\ remaining' = Val(benchmarksLen)
    /\ frame_p95' = None
    /\ recompose_p95' = None
    /\ UNCHANGED <<inputs, io, report, thresholds, pending, frameSeen, recomposeSeen>>

\* lines 20-26: report.get("benchmarks", []), the emptiness check, the accumulators
Benchmarks ==
    /\ pc = "benchmarks"
    /\ LET n == IF IsNone(benchmarksLen) THEN 0 ELSE Val(benchmarksLen) IN
       IF n = 0
       THEN Exit("no_entries", 2) /\ remaining' = remaining
       ELSE Goto("for_benchmark") /\ remaining' = n
    /\ frame_p95' = None
    /\ recompose_p95' = None
    /\ UNCHANGED <<inputs, io, report, thresholds, pending, frameSeen, recomposeSeen>>

\* line 28 at the end of the sequence
EndScan ==
    /\ pc = "for_benchmark"
    /\ remaining = 0
    /\ Goto("check_missing")
    /\ UNCHANGED <<inputs, io, report, thresholds, remaining, pending, frame_p95,
                   recompose_p95, frameSeen, recomposeSeen>>

\* lines 28-30 and 34: the next entry, whose metrics have no "frameDurationCpuMs"
\* (an entry without a "metrics" field has the empty mapping)
EnterEntry ==
    /\ pc = "for_benchmark"
    /\ remaining > 0
    /\ \E ks \in SUBSET (Keys \ {FrameKey}) :
        /\ Cardinality(ks) <= MaxMetrics
        /\ pending' = ks
    /\ remaining' = remaining - 1
    /\ Goto("for_item")
    /\ UNCHANGED <<inputs, io, report, thresholds, frame_p95, recompose_p95,
                   frameSeen, recomposeSeen>>

\* lines 28-32 and 34: the next entry, whose metrics have "frameDurationCpuMs"
EnterEntryFrame ==
    /\ pc = "for_benchmark"
    /\ remaining > 0
    /\ \E ks \in SUBSET Keys, frame_metric \in MetricValues :
        /\ FrameKey \in ks
        /\ Cardinality(ks) <= MaxMetrics
        /\ pending' = ks
        /\ frameSeen' = frameSeen \cup {frame_metric}
        /\ IF ~frame_metric.isDict
           THEN Goto("for_item") /\ frame_p95' = frame_p95
           ELSE IF FloatRaises(frame_metric)
           THEN Raise("ValueError") /\ frame_p95' = frame_p95
           ELSE Goto("for_item") /\ frame_p95' = Accumulate(frame_p95, frame_metric)
    /\ remaining' = remaining - 1
    /\ UNCHANGED <<inputs, io, report, thresholds, recompose_p95, recomposeSeen>>

\* line 34 at the end of the mapping
EndItems ==
    /\ pc = "for_item"
    /\ pending = {}
    /\ Goto("for_benchmark")
    /\ UNCHANGED <<inputs, io, report, thresholds, remaining, pending, frame_p95,
                   recompose_p95, frameSeen, recomposeSeen>>

\* lines 34-36: one item of metrics.items(), in whatever order the mapping has
ScanItem ==
    /\ pc = "for_item"
    /\ \E key \in pending, value \in MetricValues :
        /\ pending' = pending \ {key}
        /\ recomposeSeen' = IF Contains(key, Needle)
                            THEN recomposeSeen \cup {value} ELSE recomposeSeen
        /\ IF ~Matches(key, value)
           THEN Goto("for_item") /\ recompose_p95' = recompose_p95
           ELSE IF FloatRaises(value)
           THEN Raise("ValueError") /\ recompose_p95' = recompose_p95
           ELSE Goto("for_item") /\ recompose_p95' = Accumulate(recompose_p95, value)
    /\ UNCHANGED <<inputs, io, report, thresholds, remaining, frame_p95, frameSeen>>

\* CheckMissing with "and" written for "or".
CheckMissingBoth ==
    /\ pc = "check_missing"
    /\ IF IsNone(frame_p95) /\ IsNone(recompose_p95)
       THEN Exit("missing_metrics", 2)
       ELSE /\ out' = out \o <<Line("frameDurationCpuMs P95", frame_p95),
                               Line("recomposition P95", recompose_p95)>>
            /\ pc' = "frame_check"
            /\ UNCHANGED <<exitCode, fatal>>
    /\ UNCHANGED <<inputs, io, report, thresholds, remaining, pending, frame_p95,
                   recompose_p95, frameSeen, recomposeSeen>>

\* lines 38-43
CheckMissing ==
    /\ pc = "check_missing"
    /\ IF IsNone(frame_p95) \/ IsNone(recompose_p95)
       THEN Exit("missing_metrics", 2)
       ELSE /\ out' = out \o <<Line("frameDurationCpuMs P95", frame_p95),
                               Line("recomposition P95", recompose_p95)>>
            /\ pc' = "frame_check"
            /\ UNCHANGED <<exitCode, fatal>>
    /\ UNCHANGED <<inputs, io, report, thresholds, remaining, pending, frame_p95,
                   recompose_p95, frameSeen, recomposeSeen>>

\* FrameCheck with the recomposition comparison placed before it.
FrameCheckSecond ==
    /\ pc = "frame_check"
    /\ LET t == thresholdsData.frameDurationCpuMsP95
           u == thresholdsData.recompositionCountP95 IN
       CASE IsNone(u) -> Raise("KeyError")
         [] ~IsNone(u) /\ Exceeds(Val(recompose_p95), Val(u)) ->
                Exit("recompose_regression", 1)
         [] ~IsNone(u) /\ ~Exceeds(Val(recompose_p95), Val(u)) /\ IsNone(t) ->
                Raise("KeyError")
         [] ~IsNone(u) /\ ~Exceeds(Val(recompose_p95), Val(u)) /\ ~IsNone(t)
                /\ Exceeds(Val(frame_p95), Val(t)) -> Exit("frame_regression", 1)
         [] OTHER -> Goto("recompose_check")
    /\ UNCHANGED <<inputs, io, report, thresholds, remaining, pending, frame_p95,
                   recompose_p95, frameSeen, recomposeSeen>>

\* lines 45-47
FrameCheck ==
    /\ pc = "frame_check"
    /\ LET t == thresholdsData.frameDurationCpuMsP95 IN
       CASE IsNone(t) -> Raise("KeyError")
         [] ~IsNone(t) /\ Exceeds(Val(frame_p95), Val(t)) -> Exit("frame_regression", 1)
         [] OTHER -> Goto("recompose_check")
    /\ UNCHANGED <<inputs, io, report, thresholds, remaining, pending, frame_p95,
                   recompose_p95, frameSeen, recomposeSeen>>

\* lines 49-51
RecomposeCheck ==
    /\ pc = "recompose_check"
    /\ LET t == thresholdsData.recompositionCountP95 IN
       CASE IsNone(t) -> Raise("KeyError")
         [] ~IsNone(t) /\ Exceeds(Val(recompose_p95), Val(t)) -> Exit("recompose_regression", 1)
         [] OTHER -> Goto("passed")
    /\ UNCHANGED <<inputs, io, report, thresholds, remaining, pending, frame_p95,
                   recompose_p95, frameSeen, recomposeSeen>>

\* line 53 and the end of the script
Passed ==
    /\ pc = "passed"
    /\ Exit("passed", 0)
    /\ UNCHANGED <<inputs, io, report, thresholds, remaining, pending, frame_p95,
                   recompose_p95, frameSeen, recomposeSeen>>

Next ==
    \/ CheckArgs
    \/ CheckExists
    \/ LoadReport
    \/ LoadThresholds
    \/ Benchmarks
    \/ EndScan
    \/ EnterEntry
    \/ EnterEntryFrame
    \/ EndItems
    \/ ScanItem
    \/ CheckMissing
    \/ FrameCheck
    \/ RecomposeCheck
    \/ Passed

Spec == Init /\ [][Next]_vars

----------------------------------------------------------------------------
(* Vocabulary of the properties *)

Done == pc = "done"
Printed(msg) == \E k \in 1..Len(out) : out[k].msg = msg
Last(msg) == Len(out) > 0 /\ out[Len(out)].msg = msg
Only(msg) == out = <<[msg |-> msg, val |-> <<>>]>>
SetMax(S) == CHOOSE m \in S : \A x \in S : x <= m

NumEntries == IF benchmarksLen = <<>> THEN 0 ELSE benchmarksLen[1]
FrameThreshold == thresholdsData.frameDurationCpuMsP95
RecomposeThreshold == thresholdsData.recompositionCountP95

\* The P95 fields present in the records met under a metric family.
P95Fields(seen) == { m.num : m \in { x \in seen : x.isDict /\ x.field = "number" } }
\* No record was met under a metric family.
NoContribution(seen) == \A m \in seen : ~m.isDict
\* Every P95 field met is a number (the data model of the report).
NumericP95 == \A m \in frameSeen \cup recomposeSeen : m.field # "text"
\* Both files exist and parse, and the run was given two arguments.
Loaded == argc = 2 /\ benchFile = "ok" /\ thrFile = "ok"

----------------------------------------------------------------------------
(* C1 *)

\* C1: for a non-empty report, the frame_p95 value printed (and compared) is
\* the maximum of the P95 fields of the frameDurationCpuMs metrics of the
\* entries, whatever the values, negative ones included.
C1_FramePrintedIsMaxP95 ==
    \A k \in 1..Len(out) :
        (out[k].msg = "frameDurationCpuMs P95" /\ P95Fields(frameSeen) # {})
            => /\ out[k].val = <<SetMax(P95Fields(frameSeen))>>
               /\ frame_p95 = out[k].val

----------------------------------------------------------------------------
(* C2 *)

\* C2: recompose_p95 is the maximum of the P95 fields over all entries and all
\* metric names containing "compose:recompose", in whatever order they come.
C2_RecomposeIsMaxP95 ==
    (pc = "check_missing" /\ P95Fields(recomposeSeen) # {})
        => recompose_p95 = <<SetMax(P95Fields(recomposeSeen))>>

----------------------------------------------------------------------------
(* C3 *)

\* C3: once the values are printed, a frame_p95 above its threshold ends the
\* run with "Frame-time regression detected" and status 1 and the
\* recomposition message is never printed; the recomposition message (with
\* status 1) is printed exactly when frame_p95 is not above its threshold and
\* recompose_p95 is above its own.
C3_FrameCheckFirst ==
    /\ (Printed("frame_regression") \/ Printed("recompose_regression"))
          => Done /\ Printed("recomposition P95")
    /\ (Done /\ Printed("recomposition P95")) =>
        /\ (FrameThreshold # <<>> /\ frame_p95[1] > FrameThreshold[1])
              => /\ Last("frame_regression")
                 /\ exitCode = <<1>>
                 /\ ~Printed("recompose_regression")
        /\ Printed("recompose_regression")
              <=> /\ FrameThreshold # <<>>
                  /\ frame_p95[1] <= FrameThreshold[1]
                  /\ RecomposeThreshold # <<>>
                  /\ recompose_p95[1] > RecomposeThreshold[1]
        /\ Printed("recompose_regression")
              => Last("recompose_regression") /\ exitCode = <<1>>

\* Both values are above their thresholds and the run has ended.
C3_Witness ==
    /\ Done
    /\ Printed("recomposition P95")
    /\ FrameThreshold # <<>> /\ frame_p95[1] > FrameThreshold[1]
    /\ RecomposeThreshold # <<>> /\ recompose_p95[1] > RecomposeThreshold[1]
    /\ Last("frame_regression")

----------------------------------------------------------------------------
(* C4 *)

PassConditions ==
    /\ Loaded
    /\ NumEntries >= 1
    /\ NumericP95
    /\ frame_p95 # <<>>
    /\ recompose_p95 # <<>>
    /\ FrameThreshold # <<>>
    /\ RecomposeThreshold # <<>>
    /\ frame_p95[1] <= FrameThreshold[1]
    /\ recompose_p95[1] <= RecomposeThreshold[1]

\* C4: a run prints "Performance gate passed" and ends with status 0 exactly
\* when it had two arguments, a report with at least one entry, both values
\* defined and neither above its threshold; a value equal to its threshold
\* passes.  Status 0 and the message come together, and only at the end.
C4_PassIff ==
    /\ Done => ((Last("passed") /\ exitCode = <<0>>) <=> PassConditions)
    /\ Done => (Printed("passed") <=> exitCode = <<0>>)
    /\ ~Done => (~Printed("passed") /\ exitCode = <<>>)

\* A passing run whose two values equal their thresholds.
C4_Witness ==
    /\ Done
    /\ Last("passed")
    /\ exitCode = <<0>>
    /\ frame_p95 = FrameThreshold
    /\ recompose_p95 = RecomposeThreshold

----------------------------------------------------------------------------
(* C5 *)

\* C5: after the scan of a non-empty report, the run prints "Missing required
\* metrics" and ends with status 2 exactly when no entry contributed a value
\* to frame_p95 or none contributed to recompose_p95; it is then the only line
\* printed, and the labeled values are printed only when both are defined.
C5_MissingMetrics ==
    /\ Printed("missing_metrics")
          => /\ Done
             /\ Only("missing_metrics")
             /\ exitCode = <<2>>
             /\ fatal = ""
             /\ NumEntries >= 1
             /\ remaining = 0
             /\ NoContribution(frameSeen) \/ NoContribution(recomposeSeen)
    /\ (Done /\ Loaded /\ NumEntries >= 1 /\ NumericP95
            /\ (NoContribution(frameSeen) \/ NoContribution(recomposeSeen)))
          => Printed("missing_metrics")
    /\ (Printed("frameDurationCpuMs P95") \/ Printed("recomposition P95"))
          => ~NoContribution(frameSeen) /\ ~NoContribution(recomposeSeen)

\* The run ended on the message with one of the two values defined.
C5_Witness ==
    /\ Done
    /\ Only("missing_metrics")
    /\ exitCode = <<2>>
    /\ frame_p95 # <<>>
    /\ recompose_p95 = <<>>

----------------------------------------------------------------------------
(* C6 *)

\* A parsing failure the run met: a malformed report, a malformed thresholds
\* file behind a report that parsed, or a required threshold field absent.
ParsingFailure ==
    /\ argc = 2
    /\ \/ benchFile = "malformed"
       \/ benchFile = "ok" /\ thrFile = "malformed"
       \/ Loaded /\ (FrameThreshold = <<>> \/ RecomposeThreshold = <<>>)

\* C6: status 1 means a regression: a run ends with status 1 only after one
\* of the two regression messages; and a parsing failure ends the run as a
\* fatal error that is no regression, no pass and no status-2 data error.
C6_ExitCodesDistinguish ==
    Done =>
        /\ exitCode = <<1>>
              => Printed("frame_regression") \/ Printed("recompose_regression")
        /\ ParsingFailure
              => /\ fatal # ""
                 /\ ~Printed("frame_regression")
                 /\ ~Printed("recompose_regression")
                 /\ ~Printed("passed")
                 /\ exitCode # <<2>>

----------------------------------------------------------------------------
(* C7 *)

\* C7: with two arguments, a missing file (the report, or the thresholds file
\* while the report exists) ends the run with a message and status 2; for the
\* report the message names the path and no file is read.
C7_MissingFileIsUsageError ==
    (Done /\ argc = 2) =>
        /\ benchFile = "missing"
              => /\ Only("not_found:benchmark")
                 /\ exitCode = <<2>>
                 /\ io = <<"exists:benchmark">>
                 /\ ~report /\ ~thresholds
        /\ (benchFile = "ok" /\ thrFile = "missing")
              => Len(out) > 0 /\ exitCode = <<2>>

----------------------------------------------------------------------------
(* C8 *)

\* C8: with any argument count other than two, the usage message and status 2
\* are all the run does: no existence check, read, parse or computation.
C8_UsageOnly ==
    argc # 2 =>
        /\ pc \in {"args", "done"}
        /\ io = <<>>
        /\ ~report /\ ~thresholds
        /\ frame_p95 = <<>> /\ recompose_p95 = <<>>
        /\ frameSeen = {} /\ recomposeSeen = {}
        /\ Done => (Only("usage") /\ exitCode = <<2>> /\ fatal = "")
        /\ ~Done => (out = <<>> /\ exitCode = <<>>)

\* A run with three arguments naming two good files has ended.
C8_Witness ==
    /\ Done
    /\ argc = 3
    /\ benchFile = "ok" /\ thrFile = "ok"
    /\ Only("usage")

----------------------------------------------------------------------------
(* C9 *)

\* C9: when both files parse and the report has no entries (or no
\* "benchmarks" field), the run prints "No benchmark entries found" alone and
\* ends with status 2, whatever the thresholds; the message comes after both
\* files are parsed and before any entry is scanned.
C9_EmptyReport ==
    /\ (Done /\ Loaded /\ NumEntries = 0)
          => /\ Only("no_entries")
             /\ exitCode = <<2>>
             /\ fatal = ""
    /\ Printed("no_entries")
          => /\ report /\ thresholds
             /\ io = <<"exists:benchmark", "read:benchmark", "read:thresholds">>
             /\ NumEntries = 0
             /\ frameSeen = {} /\ recomposeSeen = {}
             /\ frame_p95 = <<>> /\ recompose_p95 = <<>>

\* The report has no "benchmarks" field and the thresholds file has neither field.
C9_Witness ==
    /\ Done
    /\ Only("no_entries")
    /\ benchmarksLen = <<>>
    /\ FrameThreshold = <<>> /\ RecomposeThreshold = <<>>

----------------------------------------------------------------------------
(* C10 *)

\* What a record contributes: its P95 field, 0 without one.
Contribution(m) == IF m.field = "number" THEN m.num ELSE 0
\* The accumulator after the scan: undefined when no record was met, else the
\* larger of 0 and the greatest contribution.
Clamped(seen) ==
    LET c == { Contribution(m) : m \in { x \in seen : x.isDict } } IN
    IF c = {} THEN <<>> ELSE IF SetMax(c) > 0 THEN <<SetMax(c)>> ELSE <<0>>

C10_State ==
    /\ (pc = "for_benchmark" /\ remaining = NumEntries)
          => frame_p95 = <<>> /\ recompose_p95 = <<>>
    /\ frame_p95 # <<>> => frame_p95[1] >= 0
    /\ recompose_p95 # <<>> => recompose_p95[1] >= 0
    /\ pc = "check_missing"
          => frame_p95 = Clamped(frameSeen) /\ recompose_p95 = Clamped(recomposeSeen)

C10_Step ==
    /\ frame_p95 # <<>> => (frame_p95' # <<>> /\ frame_p95'[1] >= frame_p95[1])
    /\ recompose_p95 # <<>>
          => (recompose_p95' # <<>> /\ recompose_p95'[1] >= recompose_p95[1])

\* C10: each accumulator starts the scan undefined; once defined it stays
\* defined, never decreases and is never below 0; after the scan it is the
\* larger of 0 and the greatest contribution, a record without a P95 field
\* contributing 0 and a value that is no record contributing nothing.
C10_Accumulators == []C10_State /\ [][C10_Step]_vars

\* After the scan: a negative P95, a record without P95 and a value that is
\* no record were met, and the accumulator is 0.
C10_Witness ==
    /\ pc = "check_missing"
    /\ recompose_p95 = <<0>>
    /\ \E m \in recomposeSeen : m.isDict /\ m.field = "number" /\ m.num < 0
    /\ \E m \in recomposeSeen : ~m.isDict
    /\ \E m \in frameSeen : m.isDict /\ m.field = "absent"
    /\ frame_p95 = <<0>>

====
